---- MODULE Spec2Model ----
(***************************************************************************)
(* A model of build.py, the build script of the Numix HiDPI cursor theme.  *)
(*                                                                         *)
(* The script is one module-level sequence of phases (load the cursor      *)
(* descriptors, expand them over the DPI table, write the expanded         *)
(* descriptors, queue the missing bitmaps, rasterize them with a pool of   *)
(* converter threads, compile every cursor with xcursorgen, link the       *)
(* aliases, copy the index) plus the converter threads themselves.         *)
(*                                                                         *)
(* Text is modelled as tokens: a descriptor file is a sequence of lines, a *)
(* line the sequence of tokens str.split() gives, a numeral the sequence   *)
(* of its decimal digits.  The 8 converter threads run the same code with  *)
(* the same arguments, so the model keeps the bag of their local states    *)
(* instead of one state per thread identity.                               *)
(***************************************************************************)
EXTENDS Integers, Sequences, FiniteSets, Bags, TLC

(***************************************************************************)
(* Bounds of the model.                                                    *)
(***************************************************************************)
\* build/icons is complete at the start of the first run except for bitmaps
\* of the first MissingDpis entries of the DPI table, any of which may be
\* missing
MissingDpis == 1
\* the script is run at most this many times on the same filesystem
MaxRuns == 2
\* SpecPool: every bitmap of the first PoolDpis entries of the DPI table is
\* missing
PoolDpis == 3
\* SpecDrawn: a drawn descriptor has at most MaxLines lines, and a drawn tree
\* at most MaxCursors cursors
MaxLines == 3
MaxCursors == 2

(***************************************************************************)
(* Program constants.                                                      *)
(***************************************************************************)
\* Semaphore(8), range(8), x = 8
W == 8

\* the DPI table: dpi -> pixel size, in insertion order
DPI == << <<90, 24>>, <<120, 30>>, <<160, 40>>, <<180, 45>>,
          <<200, 50>>, <<220, 55>>, <<240, 60>>, <<320, 80>> >>

\* exit codes of the external processes: 0 is success
ExitCodes == {0, 1}

NoTask == <<>>

(***************************************************************************)
(* Tokens and paths.                                                       *)
(***************************************************************************)
Num(ds) == [num |-> ds]
Str(s) == [str |-> s]
IsNum(t) == DOMAIN t = {"num"}

RECURSIVE ParseInt(_)
\* int(s) of a string of decimal digits
ParseInt(ds) ==
    IF ds = <<>> THEN 0
    ELSE 10 * ParseInt(SubSeq(ds, 1, Len(ds) - 1)) + ds[Len(ds)]

RECURSIVE Digits(_)
\* '%s' % n of a non-negative integer
Digits(n) ==
    IF n < 10 THEN <<n>> ELSE Append(Digits(n \div 10), n % 10)

\* svgs[name]: src/svg/<name>.svg
SvgPath(name) == <<"src/svg", name>>
\* ICON_OUTPUT.joinpath('%s_%s.png' % (name, dpi))
IconOutputPath(name, dpi) == <<"build/icons", name, dpi>>

(***************************************************************************)
(* The descriptor loader, lines 138-149.                                   *)
(***************************************************************************)
\* load_line with the delay of line 145 for every line
load_line_no_delay(parts) ==
    << ParseInt(parts[1].num), ParseInt(parts[2].num), ParseInt(parts[3].num),
       parts[4].str, 0 >>

\* one iteration of load_cursor's loop: the tuple appended for a line
load_line(parts) ==
    << ParseInt(parts[1].num), ParseInt(parts[2].num), ParseInt(parts[3].num),
       parts[4].str,
       IF Len(parts) = 4 THEN 0 ELSE ParseInt(parts[5].num) >>

\* a line load_cursor gets through: 4 fields, or 5 that unpack, and every
\* field given to int() a decimal numeral
line_loads(parts) ==
    /\ Len(parts) \in {4, 5}
    /\ \A i \in (1..3) \cup (IF Len(parts) = 5 THEN {5} ELSE {}) :
           IsNum(parts[i]) /\ parts[i].num # <<>>

\* load_cursor returns normally on this file (no ValueError)
load_cursor_ok(file) == \A i \in 1..Len(file) : line_loads(file[i])

\* load_cursor(path): the list of (size, hot_x, hot_y, name, delay)
load_cursor(file) == [i \in 1..Len(file) |-> load_line(file[i])]

(***************************************************************************)
(* Hotspot scaling, lines 158-160.                                         *)
(*                                                                         *)
(* new_size / orig_size and hot * scale are binary64 operations: each      *)
(* gives the double nearest to the exact result, ties to the even          *)
(* significand.  A positive double is modelled as its significand, a       *)
(* sequence of MantissaBits bits with the most significant first, and the  *)
(* number of those bits that lie after the binary point.                   *)
(***************************************************************************)
\* the significand of a Python float
MantissaBits == 53

\* the n binary digits of v < 2^n, most significant first
Bits(v, n) == [i \in 1..n |-> (v \div (2 ^ (n - i))) % 2]

RECURSIVE ValueOf(_)
\* the number a sequence of binary digits stands for
ValueOf(bits) ==
    IF Len(bits) = 0 THEN 0
    ELSE IF Len(bits) = 1 THEN bits[1]
    ELSE LET m == Len(bits) \div 2
         IN  ValueOf(SubSeq(bits, 1, m)) * (2 ^ (Len(bits) - m))
                 + ValueOf(SubSeq(bits, m + 1, Len(bits)))

\* the position of the first 1 of a sequence of binary digits
FirstOne(bits) ==
    CHOOSE i \in 1..Len(bits) : bits[i] = 1 /\ \A j \in 1..(i - 1) : bits[j] = 0

\* bits + 1
Increment(bits) ==
    LET zeros == {i \in 1..Len(bits) : bits[i] = 0}
    IN  IF zeros = {} THEN <<1>> \o [i \in 1..Len(bits) |-> 0]
        ELSE LET j == CHOOSE i \in zeros : \A k \in zeros : k <= i
             IN  [i \in 1..Len(bits) |->
                     IF i < j THEN bits[i] ELSE IF i = j THEN 1 ELSE 0]

\* the significand of the MantissaBits digits from the first 1 of a stream of
\* binary digits, rounded to nearest, ties to even; point is the number of
\* digits of the stream before the binary point, inexact tells that nonzero
\* digits follow the stream
Nearest(stream, point, inexact) ==
    LET p == FirstOne(stream)
        last == p + MantissaBits - 1
        kept == SubSeq(stream, p, last)
        up == /\ Len(stream) > last
              /\ stream[last + 1] = 1
              /\ \/ kept[MantissaBits] = 1
                 \/ inexact
                 \/ \E i \in (last + 2)..Len(stream) : stream[i] = 1
        b == IF up THEN Increment(kept) ELSE kept
    IN  IF Len(b) > MantissaBits
        THEN [bits |-> SubSeq(b, 1, MantissaBits), fbits |-> last - point - 1]
        ELSE [bits |-> b, fbits |-> last - point]

\* one step of the long division rem / den in base 2^16
DivStep(rem, den) ==
    [digit |-> (rem * 65536) \div den, rem |-> (rem * 65536) % den]

\* the float num / den of two positive ints below 2^15
float_div(num, den) ==
    LET s1 == DivStep(num % den, den)
        s2 == DivStep(s1.rem, den)
        s3 == DivStep(s2.rem, den)
        s4 == DivStep(s3.rem, den)
        s5 == DivStep(s4.rem, den)
        stream == Bits(num \div den, 16) \o Bits(s1.digit, 16)
                      \o Bits(s2.digit, 16) \o Bits(s3.digit, 16)
                      \o Bits(s4.digit, 16) \o Bits(s5.digit, 16)
    IN  Nearest(stream, 16, s5.rem # 0)

\* the float h * f of a positive int below 2^15 and a positive float
float_mul(h, f) ==
    LET b == [i \in 1..(64 - MantissaBits) |-> 0] \o f.bits
        t4 == ValueOf(SubSeq(b, 49, 64)) * h
        t3 == ValueOf(SubSeq(b, 33, 48)) * h + t4 \div 65536
        t2 == ValueOf(SubSeq(b, 17, 32)) * h + t3 \div 65536
        t1 == ValueOf(SubSeq(b, 1, 16)) * h + t2 \div 65536
        stream == Bits(t1 \div 65536, 16) \o Bits(t1 % 65536, 16)
                      \o Bits(t2 % 65536, 16) \o Bits(t3 % 65536, 16)
                      \o Bits(t4 % 65536, 16)
    IN  Nearest(stream, 80 - f.fbits, FALSE)

\* float_round that drops the fraction instead of rounding
float_round_down(f) ==
    IF f.fbits <= 0 THEN ValueOf(f.bits) * (2 ^ (0 - f.fbits))
    ELSE IF f.fbits > MantissaBits THEN 0
    ELSE ValueOf(SubSeq(f.bits, 1, MantissaBits - f.fbits))

\* round(f) of a positive float: to nearest, an exact half to even
float_round(f) ==
    IF f.fbits <= 0 THEN ValueOf(f.bits) * (2 ^ (0 - f.fbits))
    ELSE IF f.fbits > MantissaBits THEN 0
    ELSE LET ip == ValueOf(SubSeq(f.bits, 1, MantissaBits - f.fbits))
             fr == SubSeq(f.bits, MantissaBits - f.fbits + 1, MantissaBits)
         IN  IF fr[1] = 0 THEN ip
             ELSE IF \E i \in 2..Len(fr) : fr[i] = 1 THEN ip + 1
             ELSE IF ip % 2 = 0 THEN ip ELSE ip + 1

\* round(hot * scale)
scaled(hot, scale) == IF hot = 0 THEN 0 ELSE float_round(float_mul(hot, scale))

scale_hotpoints(orig_size, new_size, hot_x, hot_y) ==
    LET scale == float_div(new_size, orig_size)
    IN  << scaled(hot_x, scale), scaled(hot_y, scale) >>

(***************************************************************************)
(* The expansion over the DPI table, lines 162-178.                        *)
(***************************************************************************)
\* the tuple appended to master_cursor_list for one icon at one DPI entry
expand_icon(d, icon) ==
    LET h == scale_hotpoints(icon[1], d[2], icon[2], icon[3])
    IN  << d[1], d[2], h[1], h[2], SvgPath(icon[4]),
           IconOutputPath(icon[4], d[1]), icon[5] >>

\* expand_cursor with the loops of lines 166-167 swapped: for icon: for dpi
expand_cursor_frame_major(icons) ==
    [k \in 1..(Len(DPI) * Len(icons)) |->
        expand_icon(DPI[((k - 1) % Len(DPI)) + 1],
                    icons[((k - 1) \div Len(DPI)) + 1])]

\* the list built for one cursor: for dpi in DPI: for icon in icons
expand_cursor(icons) ==
    [k \in 1..(Len(DPI) * Len(icons)) |->
        expand_icon(DPI[((k - 1) \div Len(icons)) + 1],
                    icons[((k - 1) % Len(icons)) + 1])]

\* icons_resolve without the test of lines 169-170: any name goes through
icons_resolve_any(icons, svg_names) == TRUE

\* every icon name of the cursor is a discovered svg
icons_resolve(icons, svg_names) ==
    \A i \in 1..Len(icons) : icons[i][4] \in svg_names

(***************************************************************************)
(* Descriptor serialization, lines 180-191.                                *)
(***************************************************************************)
\* build_cursor_line with the slice args[0:3] for args[1:4]
build_cursor_line_from_dpi(args) ==
    LET line == << Num(Digits(args[1])), Num(Digits(args[2])),
                   Num(Digits(args[3])), Str(args[6]) >>
    IN  IF args[7] # 0 THEN Append(line, Num(Digits(args[7]))) ELSE line

\* build_cursor_line(args): '%s %s %s %s' and the delay when it is truthy
build_cursor_line(args) ==
    LET line == << Num(Digits(args[2])), Num(Digits(args[3])),
                   Num(Digits(args[4])), Str(args[6]) >>
    IN  IF args[7] # 0 THEN Append(line, Num(Digits(args[7]))) ELSE line

\* the line separator of a descriptor text
NL == [nl |-> TRUE]

RECURSIVE join(_)
\* '\n'.join(lines) of lines that are sequences of tokens
join(lines) ==
    IF lines = <<>> THEN <<>>
    ELSE IF Len(lines) = 1 THEN lines[1]
    ELSE lines[1] \o <<NL>> \o join(Tail(lines))

RECURSIVE file_lines(_)
\* for line in f: the lines of a text, each split into its tokens; a text that
\* does not end in a newline ends with its last line
file_lines(text) ==
    IF text = <<>> THEN <<>>
    ELSE LET ends == {i \in 1..Len(text) : text[i] = NL}
         IN  IF ends = {} THEN <<text>>
             ELSE LET e == CHOOSE i \in ends : \A j \in ends : i <= j
                  IN  <<SubSeq(text, 1, e - 1)>>
                          \o file_lines(SubSeq(text, e + 1, Len(text)))

\* the text written for one cursor: '\n'.join(lines)
cursor_text(icons) ==
    join([i \in 1..Len(icons) |-> build_cursor_line(icons[i])])

(***************************************************************************)
(* The master conversion list, lines 193-201.                              *)
(***************************************************************************)
RECURSIVE conversion_list_unchecked(_, _)
\* conversion_list without the test of line 197: a task for every icon
conversion_list_unchecked(icons, existing) ==
    IF icons = <<>> THEN <<>>
    ELSE LET i == Head(icons)
         IN  << <<i[5], i[6], i[1]>> >>
                 \o conversion_list_unchecked(Tail(icons), existing)

RECURSIVE conversion_list(_, _)
\* the tasks put for a list of expanded icons, given the files that exist
conversion_list(icons, existing) ==
    IF icons = <<>> THEN <<>>
    ELSE LET i == Head(icons)
             rest == conversion_list(Tail(icons), existing)
         IN  IF i[6] \notin existing
             THEN << <<i[5], i[6], i[1]>> >> \o rest
             ELSE rest

RECURSIVE master_conversion_list(_, _, _)
\* the queue after the loop over master_cursor_list, in dict order
master_conversion_list(order, mcl, existing) ==
    IF order = <<>> THEN <<>>
    ELSE conversion_list(mcl[Head(order)], existing)
             \o master_conversion_list(Tail(order), mcl, existing)

(***************************************************************************)
(* Aliases and symbolic links, lines 250-265.                              *)
(***************************************************************************)
RECURSIVE load_aliases(_, _)
\* cursor_aliases after the lines are read: an ordered dict, modelled as the
\* sequence of <<cursor, list of aliases>> in insertion order
load_aliases(lines, acc) ==
    IF lines = <<>> THEN acc
    ELSE LET cursor == Head(lines)[1]
             alias == Head(lines)[2]
             at == {i \in 1..Len(acc) : acc[i][1] = cursor}
         IN  IF at = {}
             THEN load_aliases(Tail(lines), Append(acc, <<cursor, <<alias>> >>))
             ELSE load_aliases(Tail(lines),
                      [i \in 1..Len(acc) |->
                          IF i \in at THEN <<cursor, Append(acc[i][2], alias)>>
                          ELSE acc[i]])

RECURSIVE link_aliases(_, _, _, _)
\* the inner loop for one cursor that is built: symlink_to raises
\* FileExistsError when the alias name exists in dist/cursors
link_aliases(cursor, aliases, names, links) ==
    IF aliases = <<>> THEN [ok |-> TRUE, links |-> links]
    ELSE IF Head(aliases) \in names \cup {l[1] : l \in links}
    THEN [ok |-> FALSE, links |-> links]
    ELSE link_aliases(cursor, Tail(aliases), names,
                      links \cup {<<Head(aliases), cursor>>})

RECURSIVE build_links(_, _, _, _)
\* the loop over cursor_aliases: ok is FALSE when it ends in an exception,
\* links are the symlinks of dist/cursors afterwards
build_links(ca, built, names, links) ==
    IF ca = <<>> THEN [ok |-> TRUE, links |-> links]
    ELSE IF Head(ca)[1] \notin built
    THEN build_links(Tail(ca), built, names, links)
    ELSE LET r == link_aliases(Head(ca)[1], Head(ca)[2], names, links)
         IN  IF r.ok THEN build_links(Tail(ca), built, names, r.links) ELSE r

(***************************************************************************)
(* Source trees the script is run on.                                      *)
(***************************************************************************)
Line4(size, hot_x, hot_y, name) ==
    << Num(Digits(size)), Num(Digits(hot_x)), Num(Digits(hot_y)), Str(name) >>
Line5(size, hot_x, hot_y, name, delay) ==
    Append(Line4(size, hot_x, hot_y, name), Num(Digits(delay)))

\* a static cursor and an animated one that share icon "a"; one alias names
\* a cursor that does not exist
TreeMain ==
    [ cursors |-> <<"c1", "c2">>,
      files   |-> [c \in {"c1", "c2"} |->
                    IF c = "c1" THEN << Line4(24, 2, 2, "a") >>
                    ELSE << Line5(32, 4, 4, "a", 50), Line5(32, 4, 4, "b", 50) >>],
      svgs    |-> {"a", "b"},
      aliases |-> << <<"c1", "arrow">>, <<"zz", "ghost">>, <<"c2", "wait">> >>,
      theme   |-> {"index.theme"} ]

\* one cursor, every alias resolvable
TreeOne ==
    [ cursors |-> <<"c1">>,
      files   |-> [c \in {"c1"} |-> << Line4(24, 2, 2, "a") >>],
      svgs    |-> {"a"},
      aliases |-> << <<"c1", "arrow">>, <<"c1", "default">> >>,
      theme   |-> {"index.theme"} ]

\* the second descriptor has a line of 3 fields
TreeBadLine ==
    [ cursors |-> <<"c1", "c2">>,
      files   |-> [c \in {"c1", "c2"} |->
                    IF c = "c1" THEN << Line4(24, 2, 2, "a") >>
                    ELSE << Line4(24, 2, 2, "a"),
                            << Num(<<2, 4>>), Num(<<2>>), Str("a") >> >>],
      svgs    |-> {"a"},
      aliases |-> << <<"c1", "arrow">> >>,
      theme   |-> {"index.theme"} ]

\* the second icon of the descriptor has no svg
TreeNoSvg ==
    [ cursors |-> <<"c1">>,
      files   |-> [c \in {"c1"} |->
                    << Line4(24, 2, 2, "a"), Line4(24, 2, 2, "q") >>],
      svgs    |-> {"a"},
      aliases |-> << <<"c1", "arrow">> >>,
      theme   |-> {"index.theme"} ]

\* three cursors that share one icon (used by SpecPool)
TreeShared ==
    [ cursors |-> <<"c1", "c2", "c3">>,
      files   |-> [c \in {"c1", "c2", "c3"} |-> << Line4(24, 2, 2, "a") >>],
      svgs    |-> {"a"},
      aliases |-> << <<"c1", "arrow">> >>,
      theme   |-> {"index.theme"} ]

TreeNames == {"main", "one", "badline", "nosvg"}
\* the state names one of the trees above as [tree |-> name]; any other tree
\* is held as it is
Named(name) == [tree |-> name]
Tree(s) ==
    IF "tree" \notin DOMAIN s THEN s
    ELSE CASE s.tree = "main" -> TreeMain
           [] s.tree = "one" -> TreeOne
           [] s.tree = "badline" -> TreeBadLine
           [] s.tree = "nosvg" -> TreeNoSvg
           [] s.tree = "shared" -> TreeShared

\* the descriptor lines drawn trees are made of: lines of 4 and of 5 fields,
\* one with a delay of 0, one of 3 fields, one of 6 and one whose icon has no
\* svg
DescriptorLines ==
    { Line4(24, 2, 2, "a"),
      Line5(44, 11, 2, "b", 50),
      Line5(24, 2, 2, "a", 0),
      << Num(<<2, 4>>), Num(<<2>>), Str("a") >>,
      Append(Line5(24, 2, 2, "a", 50), Num(<<7>>)),
      Line4(24, 2, 2, "q") }

\* the descriptors of at most n lines
Descriptors(n) == UNION {[1..k -> DescriptorLines] : k \in 0..n}

CursorNames == <<"c1", "c2", "c3", "c4">>

\* a tree of n cursors that all have the descriptor file
DrawnTree(n, file) ==
    [ cursors |-> SubSeq(CursorNames, 1, n),
      files   |-> [c \in {CursorNames[i] : i \in 1..n} |-> file],
      svgs    |-> {"a", "b"},
      aliases |-> <<>>,
      theme   |-> {"index.theme"} ]

\* the bitmaps the tree's svgs can be rasterized to
AllOutputs(tree) ==
    {IconOutputPath(n, DPI[k][1]) : n \in tree.svgs, k \in 1..Len(DPI)}

\* those of the first n entries of the DPI table
OutputsAt(tree, n) ==
    {IconOutputPath(name, DPI[k][1]) : name \in tree.svgs, k \in 1..n}

Range(f) == {f[i] : i \in DOMAIN f}

\* master_cursor_list.keys(): the cursors that have a key, in insertion order
cursor_keys(order, mcl) ==
    LET has_key(c) == c \in DOMAIN mcl
    IN  SelectSeq(order, has_key)

(***************************************************************************)
(* State.                                                                  *)
(***************************************************************************)
VARIABLES
    src,                 \* the source tree the script runs on
    icon_files,          \* the files of build/icons (ICON_OUTPUT)
    cursor_files,        \* the files of build/cursor (CURSOR_OUTPUT): stem -> text
    dist_cursors,        \* the compiled cursors of dist/.../cursors
    dist_links,          \* the symlinks of dist/.../cursors: <<alias, target>>
    dist_index,          \* the theme files copied to dist
    pc,                  \* the main thread's position in the script
    mapped_cursors,      \* stem -> list of (size, hot_x, hot_y, name, delay)
    master_cursor_list,  \* stem -> list of expanded icons
    tasks,               \* the Queue of (input_path, output_path, dpi)
    sem,                 \* the Semaphore's counter
    workers,             \* the bag of the converter threads' local states
    x,                   \* the main thread's countdown of acquires
    cursor_i,            \* the position of the compilation loop
    built_cursors,       \* the keys of the dict built_cursors
    cursor_aliases,      \* the ordered dict cursor -> aliases
    exit_status,         \* <<status>> once the main thread is over, <<>> before
    raster_done,         \* history: the bag of [task, rc] of the rasterizers that exited
    compiled,            \* history: the set of [cursor, rc] of the xcursorgen runs
    run,                 \* history: the number of this run of the script
    prev_ok,             \* history: the previous run had no failure of any kind
    wp                   \* SpecWatch: a WatchedProcess, its subprocess and its caller

script_vars == << src, icon_files, cursor_files, dist_cursors, dist_links,
                  dist_index, pc, mapped_cursors, master_cursor_list, tasks, sem,
                  workers, x, cursor_i, built_cursors, cursor_aliases,
                  exit_status, raster_done, compiled, run, prev_ok >>
vars == << script_vars, wp >>

fs_vars == << src, icon_files, cursor_files, dist_cursors, dist_links, dist_index >>
pool_vars == << tasks, sem, workers, x >>
history_vars == << raster_done, compiled, run, prev_ok >>

\* src/cursor (in glob order), src/svg, src/aliases and src/theme
Src == Tree(src)

NoDict == [c \in {} |-> <<>>]

\* a converter thread's local state: where it is, and its variable task
Worker(at, task) == [at |-> at, task |-> task]
Waiting == Worker("acquire", NoTask)   \* not yet past sem.acquire()
Pulling == Worker("get", NoTask)       \* in queue.get(timeout = 5)
Running(task) == Worker("convert", task) \* in WatchProcess(args, wait = True)
Exited == Worker("exited", NoTask)     \* past sem.release()

Move(from, to) == (workers (-) SetToBag({from})) (+) SetToBag({to})
NumAt(at) ==
    LET S == {w \in BagToSet(workers) : w.at = at}
    IN  BagCardinality([w \in S |-> workers[w]])

\* the script's own WatchedProcess objects get no callbacks and live inside
\* RasterExit and CompileCursor
NoWatch == [thread |-> "none"]

\* the state of the interpreter's variables at the top of the script
FreshProgram ==
    /\ pc = "load"
    /\ mapped_cursors = NoDict
    /\ master_cursor_list = NoDict
    /\ tasks = <<>>
    /\ sem = 0
    /\ workers = EmptyBag
    /\ x = 0
    /\ cursor_i = 1
    /\ built_cursors = {}
    /\ cursor_aliases = <<>>
    /\ exit_status = <<>>
    /\ raster_done = EmptyBag
    /\ compiled = {}

Init ==
    /\ src \in {Named(n) : n \in TreeNames}
    /\ \E missing \in SUBSET OutputsAt(Src, MissingDpis) :
           icon_files = AllOutputs(Src) \ missing
    /\ cursor_files = NoDict
    /\ dist_cursors = {}
    /\ dist_links = {}
    /\ dist_index = {}
    /\ FreshProgram
    /\ run = 1
    /\ prev_ok = FALSE
    /\ wp = NoWatch

(***************************************************************************)
(* The main thread, up to the pool.                                        *)
(***************************************************************************)
\* an uncaught exception ends the main thread; the interpreter exits with 1
Abort == pc' = "aborted" /\ exit_status' = <<1>>

\* lines 151-156: load every discovered descriptor, in glob order
LoadCursors ==
    /\ pc = "load"
    /\ LET order == Src.cursors
           bad == {i \in 1..Len(order) : ~load_cursor_ok(Src.files[order[i]])}
           n == IF bad = {} THEN Len(order)
                ELSE (CHOOSE i \in bad : \A j \in bad : i <= j) - 1
       IN  /\ mapped_cursors' =
                  [c \in {order[i] : i \in 1..n} |-> load_cursor(Src.files[c])]
           /\ IF bad = {}
              THEN pc' = "expand" /\ UNCHANGED exit_status
              ELSE Abort
    /\ UNCHANGED << wp, fs_vars, master_cursor_list, pool_vars, cursor_i,
                    built_cursors, cursor_aliases, history_vars >>

\* lines 162-178: expand every cursor over the DPI table; a cursor gets its
\* key in master_cursor_list with its first append
BuildCursorList ==
    /\ pc = "expand"
    /\ LET order == Src.cursors
           bad == {i \in 1..Len(order) :
                      ~icons_resolve(mapped_cursors[order[i]], Src.svgs)}
           n == IF bad = {} THEN Len(order)
                ELSE (CHOOSE i \in bad : \A j \in bad : i <= j) - 1
           \* the icons of the failing cursor appended before the exception
           part == IF bad = {} THEN <<>>
                   ELSE LET icons == mapped_cursors[order[n + 1]]
                            k == CHOOSE i \in 1..Len(icons) :
                                     /\ icons[i][4] \notin Src.svgs
                                     /\ \A j \in 1..(i - 1) : icons[j][4] \in Src.svgs
                        IN  [i \in 1..(k - 1) |-> expand_icon(DPI[1], icons[i])]
       IN  /\ master_cursor_list' =
                  [c \in {d \in {order[i] : i \in 1..n} : mapped_cursors[d] # <<>>}
                         \cup (IF part = <<>> THEN {} ELSE {order[n + 1]}) |->
                      IF c \in {order[i] : i \in 1..n}
                      THEN expand_cursor(mapped_cursors[c])
                      ELSE part]
           /\ IF bad = {}
              THEN pc' = "write" /\ UNCHANGED exit_status
              ELSE Abort
    /\ UNCHANGED << wp, fs_vars, mapped_cursors, pool_vars, cursor_i,
                    built_cursors, cursor_aliases, history_vars >>

\* lines 186-191: write every expanded descriptor to build/cursor
WriteCursorFiles ==
    /\ pc = "write"
    /\ cursor_files' =
           [c \in DOMAIN cursor_files \cup DOMAIN master_cursor_list |->
               IF c \in DOMAIN master_cursor_list
               THEN cursor_text(master_cursor_list[c])
               ELSE cursor_files[c]]
    /\ pc' = "queue"
    /\ UNCHANGED << wp, src, icon_files, dist_cursors, dist_links, dist_index,
                    mapped_cursors, master_cursor_list, pool_vars, cursor_i,
                    built_cursors, cursor_aliases, exit_status, history_vars >>

\* lines 193-201: queue a task for every expanded icon whose output is missing
BuildTasks ==
    /\ pc = "queue"
    /\ tasks' = master_conversion_list(cursor_keys(Src.cursors, master_cursor_list),
                                        master_cursor_list, icon_files)
    /\ pc' = "pool"
    /\ UNCHANGED << wp, fs_vars, mapped_cursors, master_cursor_list, sem, workers, x,
                    cursor_i, built_cursors, cursor_aliases, exit_status,
                    history_vars >>

(***************************************************************************)
(* The pool: the driver, lines 220-236, and converter, lines 203-218.      *)
(***************************************************************************)
\* where the main thread goes on after the pool
AfterPool ==
    IF cursor_keys(Src.cursors, master_cursor_list) = <<>>
    THEN "aliases" ELSE "compile"

\* lines 220-230 and 235-236: make the semaphore and start the threads, or
\* skip the pool when the queue is empty
StartPool ==
    /\ pc = "pool"
    /\ IF tasks # <<>>
       THEN /\ sem' = W
            /\ workers' = [w \in {Waiting} |-> W]
            /\ x' = W
            /\ pc' = "barrier"
       ELSE /\ pc' = AfterPool
            /\ UNCHANGED << sem, workers, x >>
    /\ UNCHANGED << wp, fs_vars, mapped_cursors, master_cursor_list, tasks, cursor_i,
                    built_cursors, cursor_aliases, exit_status, history_vars >>

\* lines 231-233: one sem.acquire() of the main thread's loop
MainAcquire ==
    /\ pc = "barrier"
    /\ sem > 0
    /\ sem' = sem - 1
    /\ x' = x - 1
    /\ pc' = IF x' > 0 THEN "barrier" ELSE AfterPool
    /\ UNCHANGED << wp, fs_vars, mapped_cursors, master_cursor_list, tasks, workers,
                    cursor_i, built_cursors, cursor_aliases, exit_status,
                    history_vars >>

\* WorkerAcquire without line 205: the converter starts without a permit
WorkerAcquire_no_permit ==
    /\ BagIn(Waiting, workers)
    /\ workers' = Move(Waiting, Pulling)
    /\ UNCHANGED << wp, fs_vars, pc, mapped_cursors, master_cursor_list, tasks, sem,
                    x, cursor_i, built_cursors, cursor_aliases, exit_status,
                    history_vars >>

\* line 205: a converter gets past sem.acquire()
WorkerAcquire ==
    /\ BagIn(Waiting, workers)
    /\ sem > 0
    /\ sem' = sem - 1
    /\ workers' = Move(Waiting, Pulling)
    /\ UNCHANGED << wp, fs_vars, pc, mapped_cursors, master_cursor_list, tasks, x,
                    cursor_i, built_cursors, cursor_aliases, exit_status,
                    history_vars >>

\* lines 209-211: queue.get returns a task and the rasterizer is started
WorkerGet ==
    /\ BagIn(Pulling, workers)
    /\ tasks # <<>>
    /\ tasks' = Tail(tasks)
    /\ workers' = Move(Pulling, Running(Head(tasks)))
    /\ UNCHANGED << wp, fs_vars, pc, mapped_cursors, master_cursor_list, sem, x,
                    cursor_i, built_cursors, cursor_aliases, exit_status,
                    history_vars >>

\* lines 209, 215-218: queue.get times out on the empty queue (queue.Empty),
\* the converter leaves its loop and releases the semaphore
WorkerTimeout ==
    /\ BagIn(Pulling, workers)
    /\ tasks = <<>>
    /\ workers' = Move(Pulling, Exited)
    /\ sem' = sem + 1
    /\ UNCHANGED << wp, fs_vars, pc, mapped_cursors, master_cursor_list, tasks, x,
                    cursor_i, built_cursors, cursor_aliases, exit_status,
                    history_vars >>

\* what a converter does with the rasterizer's return code, lines 211-218:
\* 0 goes round the loop, anything else raises, breaks and releases
converter_after(rc) == IF rc = 0 THEN Pulling ELSE Exited

\* lines 211-218: the rasterizer of some converter exits with rc
RasterExit ==
    \E w \in BagToSet(workers), rc \in ExitCodes :
        /\ w.at = "convert"
        /\ workers' = Move(w, converter_after(rc))
        /\ sem' = IF converter_after(rc) = Exited THEN sem + 1 ELSE sem
        /\ icon_files' = IF rc = 0 THEN icon_files \cup {w.task[2]} ELSE icon_files
        /\ raster_done' = raster_done (+) SetToBag({[task |-> w.task, rc |-> rc]})
        /\ UNCHANGED << wp, src, cursor_files, dist_cursors, dist_links, dist_index,
                        pc, mapped_cursors, master_cursor_list, tasks, x, cursor_i,
                        built_cursors, cursor_aliases, exit_status, compiled, run,
                        prev_ok >>

(***************************************************************************)
(* The main thread after the pool.                                         *)
(***************************************************************************)
\* CompileCursor with a loop that a nonzero exit of xcursorgen ends
CompileCursor_stop_on_error ==
    /\ pc = "compile"
    /\ \E rc \in ExitCodes :
        LET cursor == cursor_keys(Src.cursors, master_cursor_list)[cursor_i]
        IN  /\ compiled' = compiled \cup {[cursor |-> cursor, rc |-> rc]}
            /\ built_cursors' =
                   IF rc = 0 THEN built_cursors \cup {cursor} ELSE built_cursors
            /\ dist_cursors' =
                   IF rc = 0 THEN dist_cursors \cup {cursor} ELSE dist_cursors
    /\ cursor_i' = cursor_i + 1
    /\ pc' = IF /\ cursor_i < Len(cursor_keys(Src.cursors, master_cursor_list))
                /\ built_cursors' # built_cursors
             THEN "compile" ELSE "aliases"
    /\ UNCHANGED << wp, src, icon_files, cursor_files, dist_links, dist_index,
                    mapped_cursors, master_cursor_list, pool_vars, cursor_aliases,
                    exit_status, raster_done, run, prev_ok >>

\* lines 241-247: one iteration of the compilation loop; xcursorgen exits
\* with rc
CompileCursor ==
    /\ pc = "compile"
    /\ \E rc \in ExitCodes :
        LET cursor == cursor_keys(Src.cursors, master_cursor_list)[cursor_i]
        IN  /\ compiled' = compiled \cup {[cursor |-> cursor, rc |-> rc]}
            /\ built_cursors' =
                   IF rc = 0 THEN built_cursors \cup {cursor} ELSE built_cursors
            /\ dist_cursors' =
                   IF rc = 0 THEN dist_cursors \cup {cursor} ELSE dist_cursors
    /\ cursor_i' = cursor_i + 1
    /\ pc' = IF cursor_i < Len(cursor_keys(Src.cursors, master_cursor_list))
             THEN "compile" ELSE "aliases"
    /\ UNCHANGED << wp, src, icon_files, cursor_files, dist_links, dist_index,
                    mapped_cursors, master_cursor_list, pool_vars, cursor_aliases,
                    exit_status, raster_done, run, prev_ok >>

\* lines 250-256: read src/aliases
LoadAliases ==
    /\ pc = "aliases"
    /\ cursor_aliases' = load_aliases(Src.aliases, <<>>)
    /\ pc' = "links"
    /\ UNCHANGED << wp, fs_vars, mapped_cursors, master_cursor_list, pool_vars,
                    cursor_i, built_cursors, exit_status, history_vars >>

\* lines 258-265: link every alias of every built cursor
BuildLinks ==
    /\ pc = "links"
    /\ LET r == build_links(cursor_aliases, built_cursors, dist_cursors, dist_links)
       IN  /\ dist_links' = r.links
           /\ IF r.ok THEN pc' = "copy" /\ UNCHANGED exit_status ELSE Abort
    /\ UNCHANGED << wp, src, icon_files, cursor_files, dist_cursors, dist_index,
                    mapped_cursors, master_cursor_list, pool_vars, cursor_i,
                    built_cursors, cursor_aliases, history_vars >>

\* lines 267-270: copy the theme files; the script ends
CopyIndex ==
    /\ pc = "copy"
    /\ dist_index' = dist_index \cup Src.theme
    /\ pc' = "done"
    /\ exit_status' = <<0>>
    /\ UNCHANGED << wp, src, icon_files, cursor_files, dist_cursors, dist_links,
                    mapped_cursors, master_cursor_list, pool_vars, cursor_i,
                    built_cursors, cursor_aliases, history_vars >>

(***************************************************************************)
(* Runs of the script.                                                     *)
(***************************************************************************)
\* the rasterizer tasks that exited nonzero in this run
FailedTasks == {e.task : e \in {d \in BagToSet(raster_done) : d.rc # 0}}

\* the interpreter has exited: the main thread is over and so is every
\* converter (they are not daemon threads)
ProcessExited ==
    /\ pc \in {"done", "aborted"}
    /\ \A w \in BagToSet(workers) : w = Exited

\* this run ended without a failure of any kind
RunOk ==
    /\ pc = "done"
    /\ FailedTasks = {}
    /\ built_cursors = Range(Src.cursors)
    /\ \A i \in 1..Len(Src.aliases) : Src.aliases[i][1] \in built_cursors

\* the script is started again on the filesystem the last run left
Rerun ==
    /\ ProcessExited
    /\ run < MaxRuns
    /\ run' = run + 1
    /\ prev_ok' = RunOk
    /\ pc' = "load"
    /\ mapped_cursors' = NoDict
    /\ master_cursor_list' = NoDict
    /\ tasks' = <<>>
    /\ sem' = 0
    /\ workers' = EmptyBag
    /\ x' = 0
    /\ cursor_i' = 1
    /\ built_cursors' = {}
    /\ cursor_aliases' = <<>>
    /\ exit_status' = <<>>
    /\ raster_done' = EmptyBag
    /\ compiled' = {}
    /\ UNCHANGED << fs_vars, wp >>

Next ==
    \/ LoadCursors
    \/ BuildCursorList
    \/ WriteCursorFiles
    \/ BuildTasks
    \/ StartPool
    \/ MainAcquire
    \/ WorkerAcquire
    \/ WorkerGet
    \/ WorkerTimeout
    \/ RasterExit
    \/ CompileCursor
    \/ LoadAliases
    \/ BuildLinks
    \/ CopyIndex
    \/ Rerun

Spec == Init /\ [][Next]_vars

(***************************************************************************)
(* The pool on its own: the script at line 220, run on TreeShared with the *)
(* bitmaps of the first PoolDpis DPI entries missing, up to line 238.      *)
(***************************************************************************)
InitPool ==
    /\ src = Named("shared")
    /\ icon_files = AllOutputs(Src) \ OutputsAt(Src, PoolDpis)
    /\ mapped_cursors = [c \in Range(Src.cursors) |-> load_cursor(Src.files[c])]
    /\ master_cursor_list =
           [c \in Range(Src.cursors) |-> expand_cursor(mapped_cursors[c])]
    /\ cursor_files =
           [c \in Range(Src.cursors) |-> cursor_text(master_cursor_list[c])]
    /\ tasks = master_conversion_list(Src.cursors, master_cursor_list, icon_files)
    /\ pc = "pool"
    /\ dist_cursors = {}
    /\ dist_links = {}
    /\ dist_index = {}
    /\ sem = 0
    /\ workers = EmptyBag
    /\ x = 0
    /\ cursor_i = 1
    /\ built_cursors = {}
    /\ cursor_aliases = <<>>
    /\ exit_status = <<>>
    /\ raster_done = EmptyBag
    /\ compiled = {}
    /\ run = 1
    /\ prev_ok = FALSE
    /\ wp = NoWatch

NextPool ==
    \/ StartPool
    \/ MainAcquire
    \/ WorkerAcquire
    \/ WorkerGet
    \/ WorkerTimeout
    \/ RasterExit

SpecPool == InitPool /\ [][NextPool]_vars

\* fair scheduling of the pool: every thread that can take a step eventually
\* takes one (a thread blocked in sem.acquire() can take a step whenever the
\* semaphore is positive, hence the strong fairness of the acquires), and
\* every rasterizer eventually exits
PoolFairness ==
    /\ WF_vars(StartPool)
    /\ SF_vars(MainAcquire)
    /\ SF_vars(WorkerAcquire)
    /\ WF_vars(WorkerGet)
    /\ WF_vars(WorkerTimeout)
    /\ WF_vars(RasterExit)

SpecPoolFair == SpecPool /\ PoolFairness

(***************************************************************************)
(* The descriptor pipeline on its own: the script from its start to line   *)
(* 191, run on a drawn tree.                                               *)
(***************************************************************************)
InitDrawn ==
    /\ \E n \in 1..MaxCursors, file \in Descriptors(MaxLines) :
           src = DrawnTree(n, file)
    /\ icon_files = AllOutputs(Src)
    /\ cursor_files = NoDict
    /\ dist_cursors = {}
    /\ dist_links = {}
    /\ dist_index = {}
    /\ FreshProgram
    /\ run = 1
    /\ prev_ok = FALSE
    /\ wp = NoWatch

NextDrawn ==
    \/ LoadCursors
    \/ BuildCursorList
    \/ WriteCursorFiles

SpecDrawn == InitDrawn /\ [][NextDrawn]_vars

(***************************************************************************)
(* WatchedProcess and WatchProcess, lines 44-104: one WatchedProcess made  *)
(* by WatchProcess(args, start, wait, on_exit, on_error), its subprocess,  *)
(* its watcher thread and the thread that called WatchProcess.             *)
(***************************************************************************)
\* the WatchedProcess after __init__: the subprocess runs (line 67), the
\* thread is not started, no callback has been called
WatchedProcess(on_exit, on_error, start, wait) ==
    [ on_exit     |-> on_exit,    \* a callable is given as on_exit
      on_error    |-> on_error,   \* a callable is given as on_error
      start       |-> start,
      wait        |-> wait,
      proc        |-> <<>>,       \* <<returncode>> once the subprocess has exited
      started     |-> FALSE,      \* the Event _started
      thread      |-> "new",      \* the watcher thread's position in run()
      caller      |-> "call",     \* the caller's position in WatchProcess
      exit_calls  |-> <<>>,       \* history: the arguments on_exit was called with
      error_calls |-> <<>> ]      \* history: the arguments on_error was called with

InitWatch ==
    /\ \E on_exit, on_error, start, wait \in BOOLEAN :
           wp = WatchedProcess(on_exit, on_error, start, wait)
    /\ src = Named("one")
    /\ icon_files = AllOutputs(Src)
    /\ cursor_files = NoDict
    /\ dist_cursors = {}
    /\ dist_links = {}
    /\ dist_index = {}
    /\ FreshProgram
    /\ run = 1
    /\ prev_ok = FALSE

\* the subprocess exits with some return code
ProcessExit ==
    /\ wp.proc = <<>>
    /\ \E rc \in ExitCodes : wp' = [wp EXCEPT !.proc = <<rc>>]
    /\ UNCHANGED script_vars

\* lines 100-104: WatchProcess starts the thread if start, then waits if wait
WatchProcess ==
    /\ wp.caller = "call"
    /\ wp' = [wp EXCEPT
                 !.thread = IF wp.start THEN "run" ELSE @,
                 !.caller = IF wp.wait THEN "wait_started" ELSE "returned"]
    /\ UNCHANGED script_vars

\* line 94: the caller gets past self._started.wait()
WaitStarted ==
    /\ wp.caller = "wait_started"
    /\ wp.started
    /\ wp' = [wp EXCEPT !.caller = "wait_proc"]
    /\ UNCHANGED script_vars

\* lines 95 and 103: the caller's self._proc.wait() returns
WaitReturns ==
    /\ wp.caller = "wait_proc"
    /\ wp.proc # <<>>
    /\ wp' = [wp EXCEPT !.caller = "returned"]
    /\ UNCHANGED script_vars

\* line 74: run() sets _started
RunStarted ==
    /\ wp.thread = "run"
    /\ wp' = [wp EXCEPT !.started = TRUE, !.thread = "wait"]
    /\ UNCHANGED script_vars

\* lines 75-76: the watcher's self._proc.wait() returns and rc is read
RunWaitReturns ==
    /\ wp.thread = "wait"
    /\ wp.proc # <<>>
    /\ wp' = [wp EXCEPT !.thread = "on_exit"]
    /\ UNCHANGED script_vars

\* lines 77-78: on_exit(rc) if a callable is given
RunOnExit ==
    /\ wp.thread = "on_exit"
    /\ wp' = [wp EXCEPT
                 !.exit_calls = IF wp.on_exit THEN Append(@, wp.proc[1]) ELSE @,
                 !.thread = "on_error"]
    /\ UNCHANGED script_vars

\* RunOnError without the test rc != 0 of line 79
RunOnError_any_rc ==
    /\ wp.thread = "on_error"
    /\ wp' = [wp EXCEPT
                 !.error_calls = IF wp.on_error THEN Append(@, wp.proc[1]) ELSE @,
                 !.thread = "done"]
    /\ UNCHANGED script_vars

\* lines 79-80: on_error(rc) if a callable is given and rc != 0
RunOnError ==
    /\ wp.thread = "on_error"
    /\ wp' = [wp EXCEPT
                 !.error_calls = IF wp.on_error /\ wp.proc[1] # 0
                                 THEN Append(@, wp.proc[1]) ELSE @,
                 !.thread = "done"]
    /\ UNCHANGED script_vars

\* the caller's program ends after WatchProcess has returned: the watcher is
\* a daemon thread (line 60), the interpreter does not wait for it and it
\* runs no further
InterpreterExit ==
    /\ wp.caller = "returned"
    /\ wp' = [wp EXCEPT
                 !.caller = "exited",
                 !.thread = IF @ \in {"new", "done"} THEN @ ELSE "killed"]
    /\ UNCHANGED script_vars

NextWatch ==
    \/ ProcessExit
    \/ WatchProcess
    \/ WaitStarted
    \/ WaitReturns
    \/ RunStarted
    \/ RunWaitReturns
    \/ RunOnExit
    \/ RunOnError
    \/ InterpreterExit

SpecWatch == InitWatch /\ [][NextWatch]_vars

(***************************************************************************)
(* State functions the properties are stated with.                         *)
(***************************************************************************)
\* the pool has been started in this run
PoolStarted == workers # EmptyBag
\* the main thread has left the loop of lines 231-233
PastBarrier == PoolStarted /\ pc # "barrier"
\* every converter thread is over
AllExited == \A w \in BagToSet(workers) : w = Exited
\* the permits the main thread has taken, and those out of the semaphore
MainPermits == IF PoolStarted THEN W - x ELSE 0
PermitsOut == IF PoolStarted THEN W - sem ELSE 0
\* the number of rasterizers that have exited nonzero in this run
NumFailedExits ==
    LET S == {d \in BagToSet(raster_done) : d.rc # 0}
    IN  BagCardinality([d \in S |-> raster_done[d]])
\* the cursors xcursorgen has been run for in this run
CompiledCursors == {e.cursor : e \in compiled}
\* the cursor has an expanded icon whose rasterizer exited nonzero in this run
HasFailedTask(c) ==
    /\ c \in DOMAIN master_cursor_list
    /\ \E i \in 1..Len(master_cursor_list[c]) :
           master_cursor_list[c][i][6] \in {t[2] : t \in FailedTasks}
\* the loop of lines 259-264 is over, normally or by an exception
LinksOver ==
    \/ pc \in {"copy", "done"}
    \/ pc = "aborted" /\ cursor_aliases # <<>>
\* a failure the run does not stop for has happened
AnyFailure ==
    \/ FailedTasks # {}
    \/ \E e \in compiled : e.rc # 0
    \/ LinksOver /\ \E i \in 1..Len(Src.aliases) :
                        Src.aliases[i][1] \notin built_cursors
\* the expanded icons of all cursors, as <<cursor, position>>
Frames ==
    UNION {{<<c, i>> : i \in 1..Len(master_cursor_list[c])} :
              c \in DOMAIN master_cursor_list}
TaskOf(f) ==
    LET icon == master_cursor_list[f[1]][f[2]]
    IN  <<icon[5], icon[6], icon[1]>>

(***************************************************************************)
(* C1.                                                                     *)
(***************************************************************************)
\* C1: xcursorgen is first run only after every one of the 8 converters has
\* left its loop and released the semaphore: once a cursor has been compiled
\* in a run that started the pool, no converter is waiting to start, pulling
\* or converting.
C1_CompileAfterAllWorkers ==
    (PoolStarted /\ compiled # {}) => AllExited

(***************************************************************************)
(* C2.                                                                     *)
(***************************************************************************)
\* C2: a rasterizer that exits nonzero does not stop the converter that ran
\* it: in the step in which a rasterizer exits nonzero no converter exits,
\* the converter is back in queue.get.
C2_FailureKeepsWorker ==
    [][NumFailedExits' > NumFailedExits =>
          /\ NumAt("exited")' = NumAt("exited")
          /\ NumAt("get")' = NumAt("get") + 1]_vars

(***************************************************************************)
(* C3.                                                                     *)
(***************************************************************************)
\* C3: when the pool has completed (every converter has exited and the main
\* thread is past the barrier) the queue is empty.
C3_QueueEmptyAfterPool ==
    (PastBarrier /\ AllExited) => tasks = <<>>

(***************************************************************************)
(* C4.                                                                     *)
(***************************************************************************)
\* C4: xcursorgen is never run for a cursor with a task that failed in this
\* run and the cursor never enters built_cursors, and once the compilation
\* loop is over xcursorgen has been run for every other cursor.
C4_FailedCursorSkipped ==
    /\ \A c \in Range(Src.cursors) :
           HasFailedTask(c) => c \notin CompiledCursors /\ c \notin built_cursors
    /\ pc \in {"aliases", "links", "copy", "done"} =>
           \A c \in Range(Src.cursors) :
               ~HasFailedTask(c) => c \in CompiledCursors

(***************************************************************************)
(* C5.                                                                     *)
(***************************************************************************)
\* C5: the queue holds at most one task for an output path.
C5_OneTaskPerOutput ==
    \A i, j \in 1..Len(tasks) : tasks[i][2] = tasks[j][2] => i = j

(***************************************************************************)
(* C6.                                                                     *)
(***************************************************************************)
\* C6: at most W rasterizers are in flight, and no more than the permits the
\* converters have taken from the semaphore and not given back (those out of
\* the semaphore that the main thread does not hold).
C6_InFlightHoldPermits ==
    /\ NumAt("convert") <= W
    /\ NumAt("convert") <= PermitsOut - MainPermits

\* W rasterizers in flight while tasks are still queued
C6_Witness == NumAt("convert") = W /\ tasks # <<>>

(***************************************************************************)
(* C7.                                                                     *)
(***************************************************************************)
\* the theme of a run of Src without failure
FullTheme ==
    /\ dist_cursors = Range(Src.cursors)
    /\ dist_links = {<<Src.aliases[i][2], Src.aliases[i][1]>> :
                        i \in 1..Len(Src.aliases)}
    /\ dist_index = Src.theme

\* C7: a second run on the filesystem a run without failure left starts no
\* rasterizer, runs to completion and leaves the same theme.
C7_SecondRunIdempotent ==
    (run = 2 /\ prev_ok /\ pc \in {"done", "aborted"}) =>
        /\ pc = "done"
        /\ ~PoolStarted
        /\ FullTheme

(***************************************************************************)
(* C8.                                                                     *)
(***************************************************************************)
\* C8: a run in which a non-fatal failure happened exits with a nonzero
\* status, and a run exits with 0 only when none happened.
C8_ExitStatusTellsFailure ==
    exit_status = <<0>> => ~AnyFailure

(***************************************************************************)
(* C9.                                                                     *)
(***************************************************************************)
\* C9: when the loop over the aliases is over, it has not ended the run, every
\* alias of a built cursor is a symlink to that cursor, and in a first run
\* there is no symlink for an alias of a cursor that is not built.
C9_AliasesLinked ==
    LinksOver =>
        /\ pc # "aborted"
        /\ \A i \in 1..Len(Src.aliases) :
               LET cursor == Src.aliases[i][1]
                   alias == Src.aliases[i][2]
               IN  /\ cursor \in built_cursors => <<alias, cursor>> \in dist_links
                   /\ (run = 1 /\ cursor \notin built_cursors) =>
                          alias \notin {l[1] : l \in dist_links}

(***************************************************************************)
(* C10.                                                                    *)
(***************************************************************************)
\* C10: when the queue has been built it holds exactly the tasks of the
\* expanded icons whose output is not in build/icons: one task for each such
\* icon, and none for an icon whose output exists.
C10_QueueIsMissingOutputs ==
    pc = "pool" =>
        /\ Range(tasks) = {TaskOf(f) : f \in {g \in Frames :
                                  TaskOf(g)[2] \notin icon_files}}
        /\ Len(tasks) = Cardinality({f \in Frames : TaskOf(f)[2] \notin icon_files})

\* a queue is built that holds a task, while the output of another icon exists
C10_Witness ==
    /\ pc = "pool"
    /\ tasks # <<>>
    /\ \E f \in Frames : TaskOf(f)[2] \in icon_files

(***************************************************************************)
(* C11.                                                                    *)
(***************************************************************************)
\* the compilation loop of this run is over
CompileOver == pc \in {"aliases", "links", "copy", "done"} \/ LinksOver

\* C11: a nonzero exit of xcursorgen for a cursor keeps only that cursor out
\* of built_cursors: every iteration of the loop runs xcursorgen once, when
\* the loop is over it has been run exactly once for every cursor, and a
\* cursor is in built_cursors if and only if its own xcursorgen exited 0.
C11_CompilerFailureIsolated ==
    /\ pc = "compile" => Cardinality(compiled) = cursor_i - 1
    /\ CompileOver =>
           \A c \in Range(Src.cursors) :
               Cardinality({e \in compiled : e.cursor = c}) = 1
    /\ \A c \in Range(Src.cursors) :
           c \in built_cursors <=> [cursor |-> c, rc |-> 0] \in compiled

\* the loop is over, xcursorgen exited nonzero for the first cursor and a
\* later cursor is built
C11_Witness ==
    /\ CompileOver
    /\ [cursor |-> Src.cursors[1], rc |-> 1] \in compiled
    /\ \E i \in 2..Len(Src.cursors) : Src.cursors[i] \in built_cursors

(***************************************************************************)
(* C12.                                                                    *)
(***************************************************************************)
\* a descriptor of the tree has a line whose field count is neither 4 nor 5
MalformedLine ==
    \E c \in Range(Src.cursors) : \E i \in 1..Len(Src.files[c]) :
        Len(Src.files[c][i]) \notin {4, 5}
\* a descriptor of the tree has a frame whose icon name is not a discovered svg
UnknownIcon ==
    \E c \in Range(Src.cursors) : \E i \in 1..Len(Src.files[c]) :
        /\ Len(Src.files[c][i]) \in {4, 5}
        /\ Src.files[c][i][4].str \notin Src.svgs

\* C12: on a tree with a malformed descriptor line or an unknown icon name
\* the run never gets past the phase that meets the error (loading for a
\* malformed line, expansion for an unknown icon) and ends there with an
\* uncaught exception: no descriptor is written to build/cursor, no task is
\* enqueued, no converter or rasterizer is started, no cursor is compiled and
\* no alias is linked.
C12_ConfigErrorAborts ==
    /\ MalformedLine => pc \in {"load", "aborted"} /\ master_cursor_list = NoDict
    /\ (MalformedLine \/ UnknownIcon) =>
           /\ pc \in {"load", "expand", "aborted"}
           /\ pc = "aborted" => exit_status = <<1>>
           /\ cursor_files = NoDict
           /\ tasks = <<>> /\ workers = EmptyBag /\ raster_done = EmptyBag
           /\ compiled = {} /\ built_cursors = {} /\ dist_cursors = {}
           /\ dist_links = {}

\* a run has ended on an unknown icon name after it expanded an earlier frame
C12_Witness ==
    /\ UnknownIcon
    /\ pc = "aborted"
    /\ master_cursor_list # NoDict

(***************************************************************************)
(* C13.                                                                    *)
(***************************************************************************)
\* the expansion loop of this run has ended normally
Expanded == pc \in {"write", "queue"}

\* the frames loaded for all cursors, as <<cursor, position>>
LoadedFrames ==
    UNION {{<<c, i>> : i \in 1..Len(mapped_cursors[c])} :
              c \in DOMAIN mapped_cursors}

\* C13: when the expansion has ended normally, a cursor with F loaded frames
\* owns F * 8 expanded frames, the one at position (d - 1) * F + f being
\* frame f at entry d of the DPI table; over C cursors of F frames each that
\* makes C * F * 8 expanded frames; and cursors with the same loaded frames
\* have the same expanded sequence.
C13_ExpansionTotal ==
    Expanded =>
        /\ Len(DPI) = 8
        /\ \A c \in DOMAIN mapped_cursors :
               LET icons == mapped_cursors[c]
                   F == Len(icons)
               IN  F > 0 =>
                     /\ c \in DOMAIN master_cursor_list
                     /\ Len(master_cursor_list[c]) = F * 8
                     /\ \A d \in 1..8, f \in 1..F :
                            LET e == master_cursor_list[c][(d - 1) * F + f]
                            IN  /\ e[1] = DPI[d][1]
                                /\ e[2] = DPI[d][2]
                                /\ e[5] = SvgPath(icons[f][4])
                                /\ e[6] = IconOutputPath(icons[f][4], DPI[d][1])
                                /\ e[7] = icons[f][5]
        /\ \A c \in DOMAIN master_cursor_list : mapped_cursors[c] # <<>>
        /\ (\A c \in DOMAIN mapped_cursors :
                Len(mapped_cursors[c]) * Len(Src.cursors) = Cardinality(LoadedFrames))
               => Cardinality(Frames) = Cardinality(LoadedFrames) * 8
        /\ \A c1, c2 \in DOMAIN master_cursor_list :
               mapped_cursors[c1] = mapped_cursors[c2]
                   => master_cursor_list[c1] = master_cursor_list[c2]

\* two cursors of two different frames each have been expanded
C13_Witness ==
    /\ Expanded
    /\ Len(Src.cursors) = 2
    /\ \A c \in DOMAIN mapped_cursors :
           Len(mapped_cursors[c]) = 2 /\ mapped_cursors[c][1] # mapped_cursors[c][2]
    /\ Cardinality(Frames) = 32

(***************************************************************************)
(* C14.                                                                    *)
(***************************************************************************)
\* C14: once the descriptors of a tree whose lines all have 4 or 5 fields are
\* loaded, every cursor has as many records as its file has lines, record i
\* carrying the size, hot_x, hot_y and name of line i, and the delay of its
\* fifth field, or 0 when the line has 4 fields.
C14_LoaderKeepsLines ==
    (~MalformedLine /\ pc # "load") =>
        /\ DOMAIN mapped_cursors = Range(Src.cursors)
        /\ \A c \in Range(Src.cursors) :
               LET file == Src.files[c]
                   icons == mapped_cursors[c]
               IN  /\ Len(icons) = Len(file)
                   /\ \A i \in 1..Len(file) :
                          /\ Digits(icons[i][1]) = file[i][1].num
                          /\ Digits(icons[i][2]) = file[i][2].num
                          /\ Digits(icons[i][3]) = file[i][3].num
                          /\ icons[i][4] = file[i][4].str
                          /\ IF Len(file[i]) = 5
                             THEN Digits(icons[i][5]) = file[i][5].num
                             ELSE icons[i][5] = 0

\* a descriptor with a line of 4 fields before a different line of 5 fields
\* with a delay has been loaded
C14_Witness ==
    /\ pc = "expand"
    /\ \E c \in DOMAIN mapped_cursors :
           /\ Len(mapped_cursors[c]) = 3
           /\ Len(Src.files[c][1]) = 4 /\ mapped_cursors[c][1][5] = 0
           /\ Len(Src.files[c][2]) = 5 /\ mapped_cursors[c][2][5] = 50
           /\ mapped_cursors[c][1][1] # mapped_cursors[c][2][1]

(***************************************************************************)
(* C15.                                                                    *)
(***************************************************************************)
\* the subprocess has exited and the caller's program is over
WatchOver == wp.proc # <<>> /\ wp.caller = "exited"

RoundHalfEven(num, den) ==
    LET q == num \div den
        r == num % den
    IN  IF 2 * r < den THEN q
        ELSE IF 2 * r > den THEN q + 1
        ELSE IF q % 2 = 0 THEN q ELSE q + 1

\* num / den is exactly half way between two integers
IsHalf(num, den) == (2 * num) % den = 0 /\ num % den # 0

\* new_size / orig_size is a binary fraction, so that the float is the quotient
ExactScale(new_size, orig_size) ==
    \E k \in 0..16 : (new_size * (2 ^ k)) % orig_size = 0

\* the scaled hotspot coordinates of the expanded frames, each with the
\* numbers it was computed from
ScaledHotspots ==
    UNION {UNION {{ [orig_size |-> mapped_cursors[c][f][1], new_size |-> DPI[d][2],
                     hot |-> mapped_cursors[c][f][h + 1],
                     scaled |-> master_cursor_list[c]
                                    [(d - 1) * Len(mapped_cursors[c]) + f][h + 2]]
                    : d \in 1..Len(DPI), h \in 1..2 }
                  : f \in 1..Len(mapped_cursors[c])}
           : c \in DOMAIN master_cursor_list}

\* C16 as stated: every scaled hotspot coordinate of an expanded frame is
\* hot * new_size / orig_size rounded to the nearest integer with exact halves
\* to the even integer, and for orig_size 24 and hot (2, 2) the result is
\* (4, 4) at new_size 48 and (2, 2) at new_size 30.
C16_HalfEven ==
    Expanded =>
        /\ \A s \in ScaledHotspots :
               s.scaled = RoundHalfEven(s.hot * s.new_size, s.orig_size)
        /\ scale_hotpoints(24, 48, 2, 2) = <<4, 4>>
        /\ scale_hotpoints(24, 30, 2, 2) = <<2, 2>>

\* C16, amended: every scaled hotspot coordinate of an expanded frame is an
\* integer nearest to hot * new_size / orig_size (at most 1/2 away); it is the
\* half-to-even rounding whenever the quotient is not an exact half or
\* new_size / orig_size is a binary fraction; and for orig_size 24 and hot
\* (2, 2) the result is (4, 4) at new_size 48 and (2, 2) at new_size 30.
C16_NearestInteger ==
    Expanded =>
        /\ \A s \in ScaledHotspots :
               LET num == s.hot * s.new_size
                   off == s.scaled * s.orig_size - num
               IN  /\ 2 * off <= s.orig_size /\ 2 * (0 - off) <= s.orig_size
                   /\ (~IsHalf(num, s.orig_size)
                           \/ ExactScale(s.new_size, s.orig_size))
                          => s.scaled = RoundHalfEven(num, s.orig_size)
        /\ scale_hotpoints(24, 48, 2, 2) = <<4, 4>>
        /\ scale_hotpoints(24, 30, 2, 2) = <<2, 2>>

\* frames have been expanded with an exact half that went to the even integer
\* (24, hot 2 at 30: 2.5 gives 2) and with one that did not (44, hot 11 at
\* 30: 7.5 gives 7)
C16_Witness ==
    /\ Expanded
    /\ [orig_size |-> 24, new_size |-> 30, hot |-> 2, scaled |-> 2]
           \in ScaledHotspots
    /\ [orig_size |-> 44, new_size |-> 30, hot |-> 11, scaled |-> 7]
           \in ScaledHotspots

(***************************************************************************)
(* C17.                                                                    *)
(***************************************************************************)
\* the number of rasterizers in flight that write the output path
InFlight(output) ==
    LET S == {w \in BagToSet(workers) : w.at = "convert" /\ w.task[2] = output}
    IN  BagCardinality([w \in S |-> workers[w]])
\* the number of rasterizers of this run that wrote the output path and exited
Finished(output) ==
    LET S == {d \in BagToSet(raster_done) : d.task[2] = output}
    IN  BagCardinality([d \in S |-> raster_done[d]])

\* C17: no two rasterizers in flight write the same output path, and no
\* output path is rasterized more than once in a run.
C17_OutputsDistinct ==
    \A output \in AllOutputs(Src) :
        /\ InFlight(output) <= 1
        /\ InFlight(output) + Finished(output) <= 1

(***************************************************************************)
(* C18.                                                                    *)
(***************************************************************************)
\* C18: under fair scheduling, with every rasterizer exiting, eventually every
\* converter has acquired the semaphore, left its loop and released it, and
\* the main thread has completed its 8 acquires and gone on.
C18_PoolTerminates == <>(PastBarrier /\ AllExited)

(***************************************************************************)
(* C19.                                                                    *)
(***************************************************************************)
\* the (size, hot_x, hot_y, name, delay) of an expanded frame, the name being
\* its output bitmap path
frame_record(e) == << e[2], e[3], e[4], e[6], e[7] >>

\* C19: once the descriptors are written, every cursor of master_cursor_list
\* has a file in build/cursor with one line per expanded frame, of 5 fields
\* when the frame's delay is nonzero and of 4 otherwise, and load_cursor
\* reads the file as the sequence of the frames' (size, hot_x, hot_y, output
\* path, delay), in the order of the expansion.
C19_DescriptorRoundTrip ==
    pc = "queue" =>
        /\ DOMAIN master_cursor_list \subseteq DOMAIN cursor_files
        /\ \A c \in DOMAIN master_cursor_list :
               LET icons == master_cursor_list[c]
                   lines == file_lines(cursor_files[c])
               IN  /\ Len(lines) = Len(icons)
                   /\ \A k \in 1..Len(icons) :
                          Len(lines[k]) = IF icons[k][7] # 0 THEN 5 ELSE 4
                   /\ load_cursor_ok(lines)
                   /\ load_cursor(lines) =
                          [k \in 1..Len(icons) |-> frame_record(icons[k])]

\* a descriptor has been written for frames with and without a delay
C19_Witness ==
    /\ pc = "queue"
    /\ \E c \in DOMAIN master_cursor_list :
           \E j, k \in 1..Len(master_cursor_list[c]) :
               /\ master_cursor_list[c][j][7] = 0
               /\ master_cursor_list[c][k][7] # 0
               /\ Len(file_lines(cursor_files[c])) = Len(master_cursor_list[c])

====
